---- MODULE Spec2Model ----
(***************************************************************************)
(* Multi-pattern signature scanner: Aho-Corasick, Wu-Manber (prefix hash   *)
(* and Bloom filter), Set-Horspool and Boyer-Moore, as driven by           *)
(* src/parse/main.c.  Each engine's preprocessing and scan is an operator  *)
(* translated from its C function; the actions are the calls the driver    *)
(* (main / createTable / scan_file) makes.                                 *)
(*                                                                         *)
(* Bytes are naturals 0..255.  A pattern is the content of one row of      *)
(* PatternSet.patterns (a zero-padded char array); the engines see it as a *)
(* C string.  Sequences are 1-based, C indices 0-based: At(s, i) is s[i].  *)
(***************************************************************************)
EXTENDS Integers, Sequences, FiniteSets, TLC

(* ------------------------------ bounds -------------------------------- *)
MaxPatterns == 2
\* the Wu-Manber runs: block size 3 needs every pattern 4 bytes long
MaxPatLen == 4
MaxTextLen == 5
\* the runs of all five engines
SmallPatLen == 3
SmallTextLen == 4
\* the runs over mixed-case and over binary signatures
TinyPatLen == 2
TinyTextLen == 3
\* the Aho-Corasick runs: three patterns give failure chains of two links
\* a pattern long enough for the block size 4
LongPatLen == 31
AcPatterns == 3
AcPatLen == 3
AcTextLen == 3

(* ------------------------- program constants -------------------------- *)
MAX_PATTERN_LEN == 256
INT_MAX == 2147483647
NOT_IN_PATTERN == -1

(* ------------------------------ helpers -------------------------------- *)
Min(a, b) == IF a < b THEN a ELSE b
Max(a, b) == IF a > b THEN a ELSE b

\* s[i] of a zero-padded char array: bytes past the stored content read 0.
At(s, i) == IF i >= 0 /\ i < Len(s) THEN s[i + 1] ELSE 0

\* <ctype.h> in the C locale
isupper(c) == c >= 65 /\ c <= 90
islower(c) == c >= 97 /\ c <= 122
isalpha(c) == isupper(c) \/ islower(c)
tolower(c) == IF isupper(c) THEN c + 32 ELSE c
toupper(c) == IF islower(c) THEN c - 32 ELSE c

RECURSIVE strnlenFrom(_, _, _)
strnlenFrom(s, i, max) ==
    IF i >= max \/ At(s, i) = 0 THEN i ELSE strnlenFrom(s, i + 1, max)

\* strlen of a row of PatternSet.patterns (the row ends in padding zeros)
strlen(s) == strnlenFrom(s, 0, Len(s))
strnlen(s, max) == strnlenFrom(s, 0, Min(max, Len(s)))

\* The C string a char array holds
CStr(s) == SubSeq(s, 1, strlen(s))

\* strncmp(text + start, pat, n) == 0, text being the scanned buffer
RECURSIVE strncmpEq(_, _, _, _, _)
strncmpEq(text, start, pat, k, n) ==
    IF k >= n THEN TRUE
    ELSE IF At(text, start + k) # At(pat, k) THEN FALSE
    ELSE IF At(pat, k) = 0 THEN TRUE
    ELSE strncmpEq(text, start, pat, k + 1, n)

(* --------------------- 32-bit unsigned arithmetic ---------------------- *)
\* A uint32_t is kept as <<high 16 bits, low 16 bits>>.
RECURSIVE XorBits(_, _, _)
XorBits(a, b, n) ==
    IF n = 0 THEN 0
    ELSE (((a % 2) + (b % 2)) % 2) + (2 * XorBits(a \div 2, b \div 2, n - 1))

FNV_OFFSET == <<33052, 40389>>   \* 0x811C9DC5
FNV_PRIME == <<256, 403>>        \* 0x01000193

\* h = (h ^ c) * 0x01000193, modulo 2^32
FnvStep(h, c) ==
    LET lo == (h[2] - (h[2] % 256)) + XorBits(h[2] % 256, c, 8)
        plo == lo * FNV_PRIME[2]
        mid == (h[1] * FNV_PRIME[2]) + (lo * FNV_PRIME[1]) + (plo \div 65536)
    IN  <<mid % 65536, plo % 65536>>

\* fnv1a(s + off, len, seed) over the bytes of s
RECURSIVE fnv1aFrom(_, _, _, _, _)
fnv1aFrom(s, off, i, len, h) ==
    IF i >= len THEN h
    ELSE fnv1aFrom(s, off, i + 1, len, FnvStep(h, At(s, off + i)))

fnv1a(s, off, len, seed) == fnv1aFrom(s, off, 0, len, seed)

\* (h1 + i * h2) mod 2^32, then mod size
BloomIdx(h1, h2, i, size) ==
    LET lo == h1[2] + (i * h2[2])
        hi == (h1[1] + (i * h2[1]) + (lo \div 65536)) % 65536
    IN  (((hi % size) * (65536 % size)) + (lo % 65536)) % size

(* ------------------------------ Wu-Manber ------------------------------ *)
choose_block_size_avg(ps) ==
    IF ps.avg_length > 30 THEN 4 ELSE 3

choose_block_size(ps) ==
    IF ps.min_length < 4 \/ ps.pattern_count > 5000 THEN 2
    ELSE choose_block_size_avg(ps)

hash_prefix(s, off, len, B) == fnv1a(s, off, Min(len, B), FNV_OFFSET)

\* block_key(s + off, avail, B): little-endian, zero-padded past avail
RECURSIVE block_key_from(_, _, _, _, _)
block_key_from(s, off, avail, B, i) ==
    IF i >= B THEN 0
    ELSE (IF i < avail THEN At(s, off + i) ELSE 0)
         + (256 * block_key_from(s, off, avail, B, i + 1))

block_key(s, off, avail, B) == block_key_from(s, off, avail, B, 0)

RECURSIVE MinPatLen(_, _, _)
MinPatLen(ps, i, m) ==
    IF i >= ps.pattern_count THEN m
    ELSE LET L == strnlen(ps.patterns[i + 1], MAX_PATTERN_LEN)
         IN  MinPatLen(ps, i + 1, IF L > 0 /\ L < m THEN L ELSE m)

wm_prepare_patterns(ps, B) ==
    IF ps.pattern_count <= 0 THEN ps
    ELSE LET m == MinPatLen(ps, 0, INT_MAX)
         IN  [ps EXCEPT !.min_length = IF m < B THEN B ELSE m]

\* bloom_init(bf, n, 0.01): size = (uint32_t)(-(n ln p) / (ln 2)^2),
\* num_hashes = (uint32_t)((size_as_double / n) * ln 2) = (uint32_t)6.64
BloomSize(n) == (n * 9585058) \div 1000000
BloomHashes == 6

bloom_init(n) == [used |-> TRUE, size |-> BloomSize(n),
                  num_hashes |-> BloomHashes, bits |-> {}]

NoBloom == [used |-> FALSE, size |-> 0, num_hashes |-> 0, bits |-> {}]

BloomProbes(bf, data, off, len) ==
    LET h1 == fnv1a(data, off, len, FNV_OFFSET)
        h2 == fnv1a(data, off, len, FNV_PRIME)
    IN  {BloomIdx(h1, h2, i, bf.size) : i \in 0 .. bf.num_hashes - 1}

bloom_add(bf, data, len) ==
    [bf EXCEPT !.bits = @ \cup BloomProbes(bf, data, 0, len)]

bloom_check(bf, data, off, len) ==
    BloomProbes(bf, data, off, len) \subseteq bf.bits

\* shift_table / hash_table hold 256^B entries; only the entries a pattern
\* wrote are stored, the others hold the value the initialising loop gave.
ShiftAt(tbl, key) ==
    IF key \in DOMAIN tbl.shift_table THEN tbl.shift_table[key]
    ELSE tbl.default_shift

HashAt(tbl, key) ==
    IF key \in DOMAIN tbl.hash_table THEN tbl.hash_table[key] ELSE -1

Put(f, k, v) == [x \in DOMAIN f \cup {k} |-> IF x = k THEN v ELSE f[x]]

\* the shift one too large: no block of a pattern gets shift 0
new_shift_late(m, j, B) == m - j - B + 1
new_shift_of(m, j, B) == m - j - B

\* only the block at offset m - B lowers a shift
WmShiftLast(tbl, P, L, m, B, j) ==
    [tbl EXCEPT !.shift_table =
                    Put(@, block_key(P, m - B, L - (m - B), B), 0)]
\* the loop over j = 0 .. m - B for one pattern
RECURSIVE WmShiftLoop(_, _, _, _, _, _)
WmShiftLoop(tbl, P, L, m, B, j) ==
    IF j > m - B THEN tbl
    ELSE LET x == block_key(P, j, L - j, B)
             new_shift == new_shift_of(m, j, B)
             t2 == IF new_shift < ShiftAt(tbl, x)
                   THEN [tbl EXCEPT !.shift_table = Put(@, x, new_shift)]
                   ELSE tbl
         \* the test on t2.B only makes the tables of this round evaluated
         \* before the next round starts; it is always true
         IN  IF t2.B = B THEN WmShiftLoop(t2, P, L, m, B, j + 1) ELSE t2

bloom_add_len(L, B) == IF L < B THEN L ELSE B

\* the pattern becomes the head of its chain without the old head behind it
WmAddUnlinked(tbl, ps, pid, m, B, use_bloom) ==
    LET P == ps.patterns[pid + 1]
        L == strlen(P)
        t1 == [tbl EXCEPT !.pat_len = Append(@, L),
                          !.prefix_hash = Append(@, hash_prefix(P, 0, L, B)),
                          !.prefix_filter =
                              IF use_bloom
                              THEN bloom_add(@, P, bloom_add_len(L, B))
                              ELSE @]
        t2 == WmShiftLoop(t1, P, L, m, B, 0)
        sfx == block_key(P, m - B, L - (m - B), B)
    IN  [t2 EXCEPT !.next = Append(@, -1),
                   !.hash_table = Put(@, sfx, pid)]
\* the body of the loop over pid
WmAddPattern(tbl, ps, pid, m, B, use_bloom) ==
    LET P == ps.patterns[pid + 1]
        L == strlen(P)
        t1 == [tbl EXCEPT !.pat_len = Append(@, L),
                          !.prefix_hash = Append(@, hash_prefix(P, 0, L, B)),
                          !.prefix_filter =
                              IF use_bloom
                              THEN bloom_add(@, P, bloom_add_len(L, B))
                              ELSE @]
        t2 == WmShiftLoop(t1, P, L, m, B, 0)
        sfx == block_key(P, m - B, L - (m - B), B)
    IN  [t2 EXCEPT !.next = Append(@, HashAt(t2, sfx)),
                   !.hash_table = Put(@, sfx, pid)]

RECURSIVE WmPatternLoop(_, _, _, _, _, _)
WmPatternLoop(tbl, ps, pid, m, B, use_bloom) ==
    IF pid >= ps.pattern_count THEN tbl
    ELSE WmPatternLoop(WmAddPattern(tbl, ps, pid, m, B, use_bloom),
                       ps, pid + 1, m, B, use_bloom)

wm_build_tables(ps, use_bloom) ==
    LET B == choose_block_size(ps)
        m == IF ps.min_length < B THEN B ELSE ps.min_length
        t0 == [B |-> B,
               default_shift |-> m - B + 1,
               shift_table |-> <<>>,
               hash_table |-> <<>>,
               next |-> <<>>,
               prefix_hash |-> <<>>,
               pat_len |-> <<>>,
               prefix_filter |-> IF use_bloom
                                 THEN bloom_init(ps.pattern_count)
                                 ELSE NoBloom]
    IN  WmPatternLoop(t0, ps, 0, m, B, use_bloom)

\* const uint32_t TABLE_SIZE = (1u << (B * 8)): the values a build can
\* give it.  With B = 4 the shift count is the width of the type, which C
\* leaves undefined: the count is taken modulo 32 (1) or the bits are
\* shifted out (0).
TABLE_SIZE(B) == IF B * 8 < 32 THEN {2 ^ (B * 8)} ELSE {0, 1}

\* the indices at which the loops over pid and j write shift_table and
\* hash_table
WmBuildKeys(set, B, m) ==
    {block_key(set.patterns[pid + 1], j, strlen(set.patterns[pid + 1]) - j, B) :
        pid \in 0 .. set.pattern_count - 1, j \in 0 .. m - B}

\* the tables wm_build_tables leaves when TABLE_SIZE is size
WmTablesOfSize(set, use_bloom, size) ==
    [table_size |-> size] @@ wm_build_tables(set, use_bloom)

\* "built" when every write of the build stayed inside the tables, "fault"
\* when one went past their end
WmBuildPc(set, t) ==
    IF \A k \in WmBuildKeys(set, t.B, t.default_shift + t.B - 1) :
           k < t.table_size
    THEN "built" ELSE "fault"

\* wm_search: the walk of one hash chain, verifying each pattern on it
wm_verify_len(ps, tbl, pid) == ps.min_length

RECURSIVE WmChain(_, _, _, _, _, _, _)
WmChain(text, ps, tbl, start, h, pid, st) ==
    IF pid = -1 THEN st
    ELSE LET hit == tbl.prefix_hash[pid + 1] = h
                    /\ strncmpEq(text, start, ps.patterns[pid + 1], 0,
                                 wm_verify_len(ps, tbl, pid))
             s1 == [st EXCEPT !.chain_steps = @ + 1,
                              !.exact_matches = IF hit THEN @ + 1 ELSE @,
                              !.verif_after_bloom = IF hit THEN @ + 1 ELSE @,
                              !.matches = IF hit THEN Append(@, <<pid, start>>)
                                          ELSE @]
         IN  WmChain(text, ps, tbl, start, h, tbl.next[pid + 1], s1)

wm_bloom_probe_len(m, B) == B

\* the first window is examined a second time before the position moves
WmWindowStall(text, ps, tbl, m, i, st) ==
    [i |-> IF st.visited = <<>> THEN i ELSE i + 1,
     st |-> [st EXCEPT !.windows = @ + 1, !.visited = Append(@, i)]]
\* one iteration of the for loop of wm_search at window end i:
\* the new i and the new statistics
WmWindow(text, ps, tbl, m, i, st) ==
    LET B == tbl.B
        key == block_key(text, i - B + 1, B, B)
        shift == ShiftAt(tbl, key)
        s1 == [st EXCEPT !.windows = @ + 1, !.sum_shift = @ + shift,
                         !.visited = Append(@, i)]
        bf == tbl.prefix_filter
    IN  IF shift > 0 THEN [i |-> i + shift, st |-> s1]
        ELSE LET s2 == [s1 EXCEPT !.hash_hits = @ + 1]
             IN  IF bf.used
                    /\ ~bloom_check(bf, text, i - m + 1, wm_bloom_probe_len(m, B))
                 THEN [i |-> i + 1,
                       st |-> [s2 EXCEPT !.bloom_checks = @ + 1]]
                 ELSE LET s3 == IF bf.used
                                THEN [s2 EXCEPT !.bloom_checks = @ + 1,
                                                !.bloom_pass = @ + 1]
                                ELSE s2
                          h == hash_prefix(text, i - m + 1, m, B)
                      IN  [i |-> i + 1,
                           st |-> WmChain(text, ps, tbl, i - m + 1, h,
                                          HashAt(tbl, key), s3)]

RECURSIVE WmLoop(_, _, _, _, _, _)
WmLoop(text, ps, tbl, m, i, st) ==
    IF i >= Len(text) THEN st
    ELSE LET r == WmWindow(text, ps, tbl, m, i, st)
         IN  WmLoop(text, ps, tbl, m, r.i, r.st)

WmStats0 == [windows |-> 0, sum_shift |-> 0, hash_hits |-> 0,
             chain_steps |-> 0, exact_matches |-> 0, bloom_checks |-> 0,
             bloom_pass |-> 0, verif_after_bloom |-> 0,
             visited |-> <<>>, matches |-> <<>>]

\* The window length wm_search uses
wm_search_m(ps, tbl) == IF ps.min_length < tbl.B THEN tbl.B ELSE ps.min_length

\* wm_search(text, n, ps, tbl) with n = Len(text).  The result is the
\* AlgorithmStats record; `matches` lists the (pid, start) pairs counted in
\* exact_matches, `visited` the window ends examined.
wm_search(text, ps, tbl) ==
    LET m == wm_search_m(ps, tbl)
    IN  WmLoop(text, ps, tbl, m, m - 1, WmStats0)

(* ----------------------------- Aho-Corasick ---------------------------- *)
\* A node's transitions[256]: only the entries ac_add_pattern wrote are
\* stored; `unset` is what every other entry holds (-1, and 0 for the root
\* once ac_build has filled its gaps).  Node k is nodes[k + 1].
TransAt(node, c) ==
    IF c \in DOMAIN node.transitions THEN node.transitions[c] ELSE node.unset

NewNode == [transitions |-> <<>>, unset |-> -1, fail_state |-> 0,
            output |-> <<>>]

ac_create == [nodes |-> <<NewNode>>, node_count |-> 1]

ac_fold(c) == tolower(c)

\* the for loop of ac_add_pattern: returns the automaton and the final state
RECURSIVE AcInsert(_, _, _, _)
AcInsert(ac, pattern, i, state) ==
    IF At(pattern, i) = 0 THEN [ac |-> ac, state |-> state]
    ELSE LET c == ac_fold(At(pattern, i))
             have == TransAt(ac.nodes[state + 1], c) # -1
             new_state == ac.node_count
             ac2 == IF have THEN ac
                    ELSE [nodes |-> Append(
                              [ac.nodes EXCEPT ![state + 1].transitions =
                                                   Put(@, c, new_state)],
                              NewNode),
                          node_count |-> ac.node_count + 1]
         IN  AcInsert(ac2, pattern, i + 1, TransAt(ac2.nodes[state + 1], c))

\* ac_add_pattern(ac, ps->patterns[pid]); the output entry is the pointer to
\* that row, identified here by pid
ac_add_pattern(ac, ps, pid) ==
    LET pattern == ps.patterns[pid + 1]
    IN  IF At(pattern, 0) = 0 THEN ac
        ELSE LET r == AcInsert(ac, pattern, 0, 0)
             IN  [r.ac EXCEPT !.nodes[r.state + 1].output = Append(@, pid)]

RECURSIVE AcAddAll(_, _, _)
AcAddAll(ac, ps, pid) ==
    IF pid >= ps.pattern_count THEN ac
    ELSE AcAddAll(ac_add_pattern(ac, ps, pid), ps, pid + 1)

\* the bytes c, ascending, with transitions[c] != -1
RECURSIVE SortedSeq(_)
SortedSeq(S) ==
    IF S = {} THEN <<>>
    ELSE LET lo == CHOOSE x \in S : \A y \in S : x <= y
         IN  <<lo>> \o SortedSeq(S \ {lo})

Children(node) ==
    SortedSeq({c \in DOMAIN node.transitions : node.transitions[c] # -1})

\* the walk always started at the root: links end at depth 0 or 1
AcFailFromRoot(nodes, fail, c) == 0
\* while (nodes[fail].transitions[c] == -1) fail = nodes[fail].fail_state
RECURSIVE AcFailWalk(_, _, _)
AcFailWalk(nodes, fail, c) ==
    IF TransAt(nodes[fail + 1], c) = -1
    THEN AcFailWalk(nodes, nodes[fail + 1].fail_state, c)
    ELSE fail

\* the outputs of the failure node are not copied
ac_keep_output(own, inherited) == own
ac_merge_output(own, inherited) == own \o inherited

\* the body of the inner for loop of ac_build for one child of `state`
AcLink(nodes, state, c) ==
    LET next == TransAt(nodes[state + 1], c)
        fail == AcFailWalk(nodes, nodes[state + 1].fail_state, c)
        target == TransAt(nodes[fail + 1], c)
        fail_node == nodes[target + 1]
    IN  [nodes EXCEPT ![next + 1].fail_state = target,
                      ![next + 1].output =
                          IF Len(fail_node.output) > 0
                          THEN ac_merge_output(@, fail_node.output)
                          ELSE @]

RECURSIVE AcLinkAll(_, _, _, _)
AcLinkAll(nodes, state, cs, k) ==
    IF k > Len(cs) THEN nodes
    ELSE AcLinkAll(AcLink(nodes, state, cs[k]), state, cs, k + 1)

\* the while (front < rear) loop; queue holds node ids
RECURSIVE AcBfs(_, _, _)
AcBfs(nodes, queue, front) ==
    IF front > Len(queue) THEN nodes
    ELSE LET state == queue[front]
             cs == Children(nodes[state + 1])
             kids == [k \in 1 .. Len(cs) |-> TransAt(nodes[state + 1], cs[k])]
         IN  AcBfs(AcLinkAll(nodes, state, cs, 1), queue \o kids, front + 1)

ac_root_gap == 0

ac_build(ac) ==
    LET root == ac.nodes[1]
        cs == Children(root)
        kids == [k \in 1 .. Len(cs) |-> root.transitions[cs[k]]]
        n1 == [k \in 1 .. Len(ac.nodes) |->
                  IF k = 1 THEN [root EXCEPT !.unset = ac_root_gap]
                  ELSE IF (k - 1) \in {kids[j] : j \in 1 .. Len(kids)}
                       THEN [ac.nodes[k] EXCEPT !.fail_state = 0]
                       ELSE ac.nodes[k]]
    IN  [ac EXCEPT !.nodes = AcBfs(n1, kids, 1)]

\* the failure links are never followed
AcStay(ac, state, c, steps) == [state |-> state, steps |-> steps]
\* while (transitions[c] == -1 && state != 0) state = fail_state
RECURSIVE AcFollow(_, _, _, _)
AcFollow(ac, state, c, steps) ==
    IF TransAt(ac.nodes[state + 1], c) = -1 /\ state # 0
    THEN AcFollow(ac, ac.nodes[state + 1].fail_state, c, steps + 1)
    ELSE [state |-> state, steps |-> steps]

ac_match_start(i, L) == i - L + 1

\* the matches of one output set at byte index i
AcEmit(ps, output, i) ==
    [j \in 1 .. Len(output) |->
        <<output[j], ac_match_start(i, strlen(ps.patterns[output[j] + 1]))>>]

AcStats0 == [chars_scanned |-> 0, transitions |-> 0, fail_steps |-> 0,
             count |-> 0, states |-> <<>>, matches |-> <<>>]

\* one iteration of the for loop of ac_search at byte index i
AcByte(ac, ps, text, i, state, st) ==
    LET c == ac_fold(At(text, i))
        f == AcFollow(ac, state, c, 0)
        t == TransAt(ac.nodes[f.state + 1], c)
        s2 == IF t = -1 THEN 0 ELSE t
        out == ac.nodes[s2 + 1].output
    IN  [state |-> s2,
         st |-> [st EXCEPT !.chars_scanned = @ + 1,
                           !.transitions = @ + 1,
                           !.fail_steps = @ + f.steps,
                           !.count = @ + Len(out),
                           !.states = Append(@, s2),
                           !.matches = @ \o AcEmit(ps, out, i)]]

RECURSIVE AcLoop(_, _, _, _, _, _)
AcLoop(ac, ps, text, i, state, st) ==
    IF i >= Len(text) THEN st
    ELSE LET r == AcByte(ac, ps, text, i, state, st)
         IN  AcLoop(ac, ps, text, i + 1, r.state, r.st)

\* the loop run to i <= len: the terminating NUL of the buffer is scanned too
ac_search_past(ac, ps, text) == AcLoop(ac, ps, text \o <<0>>, 0, 0, AcStats0)
\* ac_search(ac, text, len) with len = Len(text); `count` is s.matches
ac_search(ac, ps, text) == AcLoop(ac, ps, text, 0, 0, AcStats0)

(* ----------------------------- Set-Horspool ---------------------------- *)
\* main.c, case ALG_SH: the Pattern array built from the PatternSet
sh_driver_nocase(flag) == FALSE

sh_patterns_of(ps, nocase) ==
    [p \in 1 .. ps.pattern_count |->
        [pattern |-> ps.patterns[p],
         length |-> strlen(ps.patterns[p]),
         id |-> p - 1,
         nocase |-> sh_driver_nocase(nocase[p])]]

RECURSIVE ShMinLength(_, _, _)
ShMinLength(patterns, i, m) ==
    IF i > Len(patterns) THEN m
    ELSE ShMinLength(patterns, i + 1,
                     IF patterns[i].length < m THEN patterns[i].length ELSE m)

sh_min_length(patterns) == ShMinLength(patterns, 2, patterns[1].length)

\* int shiftTable[256] / PatternList hashTable[256]: the entries written for
\* some pattern byte are stored, the others hold `unset`
ShShiftAt(shiftTable, c) ==
    IF c \in DOMAIN shiftTable.tab THEN shiftTable.tab[c] ELSE shiftTable.unset

ShListAt(hashTable, c) ==
    IF c \in DOMAIN hashTable THEN hashTable[c] ELSE <<>>

sh_alt(ch) == IF isupper(ch) THEN tolower(ch) ELSE toupper(ch)

ShLower(tab, unset, ch, shift) ==
    IF shift < (IF ch \in DOMAIN tab THEN tab[ch] ELSE unset)
    THEN Put(tab, ch, shift) ELSE tab

sh_shift_of(minLength, i) == minLength - 1 - i

RECURSIVE ShShiftChars(_, _, _, _, _)
ShShiftChars(tab, unset, pat, minLength, i) ==
    IF i >= minLength - 1 THEN tab
    ELSE LET ch == At(pat.pattern, i)
             shift == sh_shift_of(minLength, i)
             t1 == ShLower(tab, unset, ch, shift)
             t2 == IF pat.nocase /\ isalpha(ch)
                   THEN ShLower(t1, unset, sh_alt(ch), shift) ELSE t1
         IN  ShShiftChars(t2, unset, pat, minLength, i + 1)

RECURSIVE ShShiftPatterns(_, _, _, _, _)
ShShiftPatterns(tab, unset, patterns, minLength, p) ==
    IF p > Len(patterns) THEN tab
    ELSE ShShiftPatterns(ShShiftChars(tab, unset, patterns[p], minLength, 0),
                         unset, patterns, minLength, p + 1)

buildSetHorspoolShiftTable(patterns) ==
    LET minLength == sh_min_length(patterns)
    IN  [unset |-> minLength,
         tab |-> ShShiftPatterns(<<>>, minLength, patterns, minLength, 1)]

\* the list of a byte holds only the pattern added last
ShListSet(hashTable, c, p) == Put(hashTable, c, <<p>>)
ShListAdd(hashTable, c, p) == Put(hashTable, c, Append(ShListAt(hashTable, c), p))

RECURSIVE ShHashPatterns(_, _, _, _)
ShHashPatterns(hashTable, patterns, minLength, p) ==
    IF p > Len(patterns) THEN hashTable
    ELSE IF patterns[p].length < minLength
         THEN ShHashPatterns(hashTable, patterns, minLength, p + 1)
         ELSE LET ch == At(patterns[p].pattern, minLength - 1)
                  h1 == ShListAdd(hashTable, ch, p - 1)
                  h2 == IF patterns[p].nocase /\ isalpha(ch)
                        THEN ShListAdd(h1, sh_alt(ch), p - 1) ELSE h1
              IN  ShHashPatterns(h2, patterns, minLength, p + 1)

buildPatternHashTable(patterns, minLength) ==
    ShHashPatterns(<<>>, patterns, minLength, 1)

compareChar(a, b, nocase) ==
    IF nocase THEN tolower(a) = tolower(b) ELSE a = b

\* the for loop over j of setHorspoolSearch: whether the pattern matched and
\* the comparisons made
RECURSIVE ShVerify(_, _, _, _, _)
ShVerify(text, pos, pat, j, cmp) ==
    IF j >= pat.length THEN [matched |-> TRUE, cmp |-> cmp]
    ELSE IF ~compareChar(At(text, pos + j), At(pat.pattern, j), pat.nocase)
         THEN [matched |-> FALSE, cmp |-> cmp + 1]
         ELSE ShVerify(text, pos, pat, j + 1, cmp + 1)

\* the for loop over the candidate list
RECURSIVE ShCandidates(_, _, _, _, _, _, _)
ShCandidates(text, pos, patterns, cand, i, found, st) ==
    IF i > Len(cand) THEN [found |-> found, st |-> st]
    ELSE LET p == cand[i]
             pat == patterns[p + 1]
         IN  IF pat.length <= 0 \/ pos + pat.length > Len(text)
             THEN ShCandidates(text, pos, patterns, cand, i + 1, found, st)
             ELSE LET v == ShVerify(text, pos, pat, 0, 0)
                      s1 == [st EXCEPT !.comparisons = @ + v.cmp,
                                       !.count = IF v.matched THEN @ + 1 ELSE @,
                                       !.matches = IF v.matched
                                                   THEN Append(@, <<p, pos>>)
                                                   ELSE @]
                  IN  ShCandidates(text, pos, patterns, cand, i + 1,
                                   found \/ v.matched, s1)

sh_skip_threshold == 1

\* one iteration of the while loop of setHorspoolSearch at window start pos
ShWindow(text, patterns, shiftTable, minLength, hashTable, pos, st) ==
    LET windowEnd == pos + minLength - 1
        endChar == At(text, windowEnd)
        shift == ShShiftAt(shiftTable, endChar)
        s1 == [st EXCEPT !.windows = @ + 1, !.visited = Append(@, pos)]
    IN  IF shift > sh_skip_threshold
        THEN [pos |-> pos + shift,
              st |-> [s1 EXCEPT !.sum_shift = @ + shift]]
        ELSE LET r == ShCandidates(text, pos, patterns,
                                   ShListAt(hashTable, endChar), 1, FALSE, s1)
                 adv == IF shift > 0 THEN shift ELSE 1
             IN  IF r.found THEN [pos |-> pos + 1, st |-> r.st]
                 ELSE [pos |-> pos + adv,
                       st |-> [r.st EXCEPT !.sum_shift = @ + adv]]

RECURSIVE ShLoop(_, _, _, _, _, _, _)
ShLoop(text, patterns, shiftTable, minLength, hashTable, pos, st) ==
    IF ~(pos + minLength <= Len(text)) THEN st
    ELSE LET r == ShWindow(text, patterns, shiftTable, minLength, hashTable,
                           pos, st)
         IN  ShLoop(text, patterns, shiftTable, minLength, hashTable,
                    r.pos, r.st)

ShStats0 == [windows |-> 0, sum_shift |-> 0, comparisons |-> 0, count |-> 0,
             visited |-> <<>>, matches |-> <<>>]

setHorspoolSearch(text, patterns, shiftTable, minLength, hashTable, st) ==
    IF minLength <= 0 THEN st
    ELSE ShLoop(text, patterns, shiftTable, minLength, hashTable, 0, st)

\* The bucket table handed to setHorspoolSearch: bucket[c] lists the patterns
\* whose byte at minLength - 1 is c.  performSetHorspool does not build it.
sh_hash_table(patterns, minLength) ==
    IF minLength <= 0 THEN <<>>
    ELSE buildPatternHashTable(patterns, minLength)

\* performSetHorspool(text, textLength, patterns, numPatterns)
performSetHorspool(text, patterns) ==
    LET minLength == sh_min_length(patterns)
    IN  setHorspoolSearch(text, patterns,
                          buildSetHorspoolShiftTable(patterns), minLength,
                          sh_hash_table(patterns, minLength), ShStats0)

(* ----------------------------- Boyer-Moore ----------------------------- *)
\* badCharTable[256]: entries written for a pattern byte, else NOT_IN_PATTERN
BadAt(bad, c) == IF c \in DOMAIN bad THEN bad[c] ELSE NOT_IN_PATTERN

\* the for loop over j of bm_preprocessing
RECURSIVE BmBadChars(_, _, _)
BmBadChars(bad, pattern, j) ==
    IF At(pattern, j) = 0 THEN bad
    ELSE BmBadChars(IF j > BadAt(bad, At(pattern, j))
                    THEN Put(bad, At(pattern, j), j) ELSE bad,
                    pattern, j + 1)

\* goodSuffixTable / borderTable, entries 0 .. L, kept as sequences of L + 1
GetI(t, i) == t[i + 1]
SetI(t, i, v) == [t EXCEPT ![i + 1] = v]

bm_good_of(k) == k - 1

\* the inner while loop on k: returns k and the good-suffix table
RECURSIVE BmInner(_, _, _, _, _, _)
BmInner(pattern, L, index, k, gs, border) ==
    IF k <= L /\ At(pattern, index - 1) # At(pattern, k - 1)
    THEN BmInner(pattern, L, index, GetI(border, k),
                 IF GetI(gs, k) = 0 THEN SetI(gs, k, bm_good_of(k)) ELSE gs,
                 border)
    ELSE [k |-> k, gs |-> gs]

\* the while (index > 0) loop
RECURSIVE BmBorders(_, _, _, _, _, _)
BmBorders(pattern, L, index, k, gs, border) ==
    IF index <= 0 THEN [gs |-> gs, border |-> border]
    ELSE LET r == BmInner(pattern, L, index, k, gs, border)
         IN  BmBorders(pattern, L, index - 1, r.k - 1, r.gs,
                       SetI(border, index - 1, r.k - 1))

\* the final for loop over index = 0 .. L
RECURSIVE BmFill(_, _, _, _, _)
BmFill(L, index, k, gs, border) ==
    IF index > L THEN gs
    ELSE BmFill(L, index + 1,
                IF index = k THEN GetI(border, k) ELSE k,
                IF GetI(gs, index) = 0 THEN SetI(gs, index, k) ELSE gs,
                border)

\* The tables of one pattern.  goodSuffixTable lives in malloc'ed memory and
\* only entries 0 .. L-1 are zeroed: entry L starts with whatever the
\* allocation held (`garbage`).
bm_pattern_table(pattern, garbage) ==
    LET L == strlen(pattern)
        gs0 == [i \in 1 .. L + 1 |-> IF i = L + 1 THEN garbage ELSE 0]
        b0 == [i \in 1 .. L + 1 |-> IF i = L + 1 THEN L + 1 ELSE 0]
        r == BmBorders(pattern, L, L, L + 1, gs0, b0)
    IN  [pattern |-> CStr(pattern),
         pattern_length |-> L,
         badCharTable |-> BmBadChars(<<>>, pattern, 0),
         goodSuffixTable |-> BmFill(L, 0, GetI(r.border, 0), r.gs, r.border),
         borderTable |-> r.border]

bm_preprocessing(ps, garbage) ==
    [patterns |-> [i \in 1 .. ps.pattern_count |->
                      bm_pattern_table(ps.patterns[i], garbage)],
     num_patterns |-> ps.pattern_count]

\* the inner comparison loop: the j at which it stops
RECURSIVE BmCompare(_, _, _, _)
BmCompare(t, text, shift, j) ==
    IF j >= 0 /\ At(t.pattern, j) # 0 /\ At(t.pattern, j) = At(text, shift + j)
    THEN BmCompare(t, text, shift, j - 1)
    ELSE j

bm_good_index(shift, j) == shift + j + 1

\* the advance after a mismatch at j
bm_advance(t, text, shift, j) ==
    LET bad == BadAt(t.badCharTable, At(text, shift + j))
        gi == bm_good_index(shift, j)
        skip == IF gi <= t.pattern_length
                THEN (IF bad < GetI(t.goodSuffixTable, gi)
                      THEN GetI(t.goodSuffixTable, gi) ELSE bad)
                ELSE bad
    IN  IF skip > 0 /\ j - skip > 1 THEN j - skip ELSE 1

\* the while loop of bm_search for pattern i; j is carried from one
\* alignment to the next, and the loop is left at the first match
RECURSIVE BmScan(_, _, _, _, _, _)
BmScan(t, text, i, shift, j, st) ==
    IF ~(shift + t.pattern_length - 1 >= 0
         /\ shift + t.pattern_length - 1 < Len(text))
    THEN st
    ELSE LET j2 == BmCompare(t, text, shift, j)
             s1 == [st EXCEPT !.visited = Append(@, <<i, shift>>)]
         IN  IF j2 < 0
             THEN [s1 EXCEPT !.exact_matches = @ + 1,
                             !.matches = Append(@, <<i, shift>>)]
             ELSE BmScan(t, text, i, shift + bm_advance(t, text, shift, j2),
                         j2, s1)

RECURSIVE BmPatterns(_, _, _, _)
BmPatterns(bm, text, i, st) ==
    IF i >= bm.num_patterns THEN st
    ELSE LET t == bm.patterns[i + 1]
         IN  BmPatterns(bm, text, i + 1,
                        BmScan(t, text, i, 0, t.pattern_length - 1, st))

BmStats0 == [exact_matches |-> 0, visited |-> <<>>, matches |-> <<>>]

bm_search(bm, text) == BmPatterns(bm, text, 0, BmStats0)

(* ------------------------------ the program ---------------------------- *)
VARIABLES
    alg,      \* argv[1]: "a", "d", "p", "h" or "b"
    ps,       \* the PatternSet loaded from the ruleset
    nocase,   \* per signature: the rule carries the nocase modifier
    text,     \* the content of the file to scan
    garbage,  \* what malloc'ed memory holds before it is written
    pc,       \* where main is: "start", "loaded", "built", "scanned",
              \* "skipped", "unread", "rescanned", "fault", "exit0", "exit1"
    tbl,      \* WuManberTables
    ac,       \* AhoCorasick
    sh,       \* the Pattern array of Set-Horspool
    bm,       \* BMPatterns
    stats,    \* the AlgorithmStats of the scan, with the matches it counted
    env,      \* argc, and whether the ruleset and the file can be opened
    global_mem_stats,  \* the MemoryStats record the track_ wrappers count in
    prev,     \* the AlgorithmStats of the scan before the last one
    thr       \* the scans run side by side: position, register, Stats

vars == <<alg, ps, nocase, text, garbage, pc, tbl, ac, sh, bm, stats,
          env, global_mem_stats, prev, thr>>

Algs == {"a", "d", "p", "h", "b"}

Strings(A, lo, hi) == UNION {[1 .. n -> A] : n \in lo .. hi}

PatternArrays(A, lo, hi) ==
    UNION {[1 .. c -> Strings(A, lo, hi)] : c \in 1 .. MaxPatterns}

\* loadSnortRulesFromFile: the set is zeroed, then filled row by row
PatternSetOf(rows) ==
    [patterns |-> rows, pattern_count |-> Len(rows),
     min_length |-> 0, avg_length |-> 0]

NotBuilt == [built |-> FALSE]
NoStats == [matches |-> <<>>]

\* program <alg> <file> with a ruleset and a file that open
RunOk == [argc |-> 3, ruleset |-> TRUE, capture |-> TRUE]

\* global_mem_stats = calloc(1, sizeof(MemoryStats)); total_bytes moves in
\* step with alloc_count and is left out
MemStats0 == [alloc_count |-> 0, free_count |-> 0]

\* track_malloc, track_calloc, track_realloc: n successful calls
track_alloc(m, n) == [m EXCEPT !.alloc_count = @ + n]
\* track_free: n calls with a non-NULL pointer
track_free(m, n) == [m EXCEPT !.free_count = @ + n]

Threads == {1, 2}
Idle == [t \in Threads |-> [pc |-> "idle", reg |-> 0, stats |-> NoStats]]

\* what the engines do not touch before the first scan
Fresh ==
    /\ global_mem_stats = MemStats0
    /\ prev = NoStats
    /\ thr = Idle

\* The state after the ruleset and the file have been read: the algorithm
\* is one of AS, the signatures are over PA with lengths lo .. hi and nocase
\* flags in NC, the file is over TA with at most n bytes
InitOver(AS, PA, lo, hi, NC, TA, n) ==
    /\ alg \in AS
    /\ \E rows \in PatternArrays(PA, lo, hi) :
          /\ ps = PatternSetOf(rows)
          /\ nocase \in [1 .. Len(rows) -> NC]
    /\ text \in Strings(TA, 0, n)
    /\ garbage \in (IF alg = "b" THEN {-1, 0, 1} ELSE {0})
    /\ pc = "loaded"
    /\ tbl = NotBuilt /\ ac = NotBuilt /\ sh = NotBuilt /\ bm = NotBuilt
    /\ stats = NoStats
    /\ env = RunOk
    /\ Fresh

Lower == {97, 98}        \* "a", "b"
Mixed == {65, 97}        \* "A", "a"
Binary == {0, 97}        \* NUL, "a"

\* every engine, lower-case signatures and files
Init == InitOver(Algs, Lower, 0, SmallPatLen, {FALSE}, Lower, SmallTextLen)

\* deterministic Wu-Manber alone, with signatures long enough for block size 3
InitWM == InitOver({"d"}, Lower, 0, MaxPatLen, {FALSE}, Lower, MaxTextLen)

\* every engine, signatures and files in both cases, with nocase flags
InitCase == InitOver(Algs, Mixed, 1, TinyPatLen, BOOLEAN, Mixed, TinyTextLen)

\* every engine, pattern rows and files that hold the byte 0x00
InitBin == InitOver(Algs, Binary, 1, TinyPatLen, {FALSE}, Binary, TinyTextLen)

\* the patterns of the block-size runs: short ones over "a", "b" and one
\* long enough for an average above 30
LongStrings ==
    Strings(Lower, 1, 1) \cup Strings(Lower, 4, 4)
        \cup {[i \in 1 .. LongPatLen |-> 97]}

\* the average a caller stores in avg_length before it builds
AvgLength(rows) ==
    (IF Len(rows) = 1 THEN Len(rows[1]) ELSE Len(rows[1]) + Len(rows[2]))
        \div Len(rows)

\* deterministic Wu-Manber on a set whose caller has filled avg_length
InitAvg ==
    /\ alg = "d"
    /\ \E rows \in UNION {[1 .. c -> LongStrings] : c \in 1 .. 2} :
          /\ ps = [PatternSetOf(rows) EXCEPT !.avg_length = AvgLength(rows)]
          /\ nocase = [i \in 1 .. Len(rows) |-> FALSE]
    /\ text \in Strings(Lower, 0, TinyTextLen)
    /\ garbage = 0
    /\ pc = "loaded"
    /\ tbl = NotBuilt /\ ac = NotBuilt /\ sh = NotBuilt /\ bm = NotBuilt
    /\ stats = NoStats
    /\ env = RunOk
    /\ Fresh

\* Aho-Corasick alone, over sets of up to AcPatterns signatures
InitAC ==
    /\ alg = "a"
    /\ \E rows \in UNION {[1 .. c -> Strings(Lower, 0, AcPatLen)] :
                              c \in 1 .. AcPatterns} :
          /\ ps = PatternSetOf(rows)
          /\ nocase = [i \in 1 .. Len(rows) |-> FALSE]
    /\ text \in Strings(Lower, 0, AcTextLen)
    /\ garbage = 0
    /\ pc = "loaded"
    /\ tbl = NotBuilt /\ ac = NotBuilt /\ sh = NotBuilt /\ bm = NotBuilt
    /\ stats = NoStats
    /\ env = RunOk
    /\ Fresh

\* the track_realloc calls that double the node array: capacity starts at
\* 8 and doubles whenever node_count has reached it
RECURSIVE AcGrowths(_, _)
AcGrowths(node_count, capacity) ==
    IF node_count > capacity THEN 1 + AcGrowths(node_count, 2 * capacity)
    ELSE 0

\* the tracked allocations of ac_create, ac_add_pattern and ac_build that
\* produced the automaton a: the automaton and its node array, the
\* doublings, one output array per inserted pattern, the queue, and one
\* reallocation per node whose failure node has outputs
ac_alloc_count(a, set) ==
    2 + AcGrowths(a.node_count, 8)
      + Cardinality({pid \in 0 .. set.pattern_count - 1 :
                        At(set.patterns[pid + 1], 0) # 0})
      + 1
      + Cardinality({k \in 1 .. a.node_count - 1 :
            Len(a.nodes[a.nodes[k + 1].fail_state + 1].output) > 0})

\* main, case ALG_AC: ac_create, ac_add_pattern for each row, ac_build
MainBuildAC ==
    /\ pc = "loaded" /\ alg = "a"
    /\ ac' = ac_build(AcAddAll(ac_create, ps, 0))
    /\ global_mem_stats' =
          track_free(track_alloc(global_mem_stats, ac_alloc_count(ac', ps)), 1)
    /\ pc' = "built"
    /\ UNCHANGED <<alg, ps, nocase, text, garbage, tbl, sh, bm, stats,
                   env, prev, thr>>

\* main, case ALG_WM_DET / ALG_WM_PROB: wm_build_tables on the loaded set;
\* track_malloc of the tables, track_calloc of the Bloom bit array
MainBuildWM ==
    /\ pc = "loaded" /\ alg \in {"d", "p"}
    /\ \E size \in TABLE_SIZE(choose_block_size(ps)) :
          /\ tbl' = WmTablesOfSize(ps, alg = "p", size)
          /\ pc' = WmBuildPc(ps, tbl')
    /\ global_mem_stats' =
          track_alloc(global_mem_stats, IF alg = "p" THEN 2 ELSE 1)
    /\ UNCHANGED <<alg, ps, nocase, text, garbage, ac, sh, bm, stats,
                   env, prev, thr>>

default_B == 2

\* createTable: wm_prepare_patterns, then wm_build_tables.  With no
\* nonempty pattern min_length becomes INT_MAX and the table loops run
\* off the pattern rows.
CreateTable ==
    /\ pc = "loaded" /\ alg \in {"d", "p"}
    /\ LET ps2 == wm_prepare_patterns(ps, default_B)
       IN  /\ ps' = ps2
           /\ IF ps2.min_length = INT_MAX
              THEN /\ pc' = "fault" /\ tbl' = tbl
                   /\ global_mem_stats' = global_mem_stats
              ELSE /\ \E size \in TABLE_SIZE(choose_block_size(ps2)) :
                         /\ tbl' = WmTablesOfSize(ps2, alg = "p", size)
                         /\ pc' = WmBuildPc(ps2, tbl')
                   /\ global_mem_stats' =
                         track_alloc(global_mem_stats,
                                     IF alg = "p" THEN 1 ELSE 0)
    /\ UNCHANGED <<alg, nocase, text, garbage, ac, sh, bm, stats,
                   env, prev, thr>>

\* main, case ALG_SH: the Pattern array, from track_calloc
MainBuildSH ==
    /\ pc = "loaded" /\ alg = "h"
    /\ sh' = sh_patterns_of(ps, nocase)
    /\ global_mem_stats' = track_alloc(global_mem_stats, 1)
    /\ pc' = "built"
    /\ UNCHANGED <<alg, ps, nocase, text, garbage, tbl, ac, bm, stats,
                   env, prev, thr>>

\* main, case ALG_BM: bm_preprocessing; track_malloc of the set and of the
\* table array, then of each pattern copy, track_calloc of each border table
MainBuildBM ==
    /\ pc = "loaded" /\ alg = "b"
    /\ bm' = bm_preprocessing(ps, garbage)
    /\ global_mem_stats' =
          track_alloc(global_mem_stats, 2 + 2 * ps.pattern_count)
    /\ pc' = "built"
    /\ UNCHANGED <<alg, ps, nocase, text, garbage, tbl, ac, sh, stats,
                   env, prev, thr>>

\* no scan has been started on the built tables
NoScanYet == pc = "built" /\ thr = Idle

\* scan_file when fopen fails: returns at once
ScanFileUnreadable ==
    /\ NoScanYet /\ ~env.capture
    /\ pc' = "unread"
    /\ UNCHANGED <<alg, ps, nocase, text, garbage, tbl, ac, sh, bm, stats,
                   env, global_mem_stats, prev, thr>>

\* scan_file on an empty file: returns before any engine is called
ScanFileEmpty ==
    /\ NoScanYet /\ env.capture /\ Len(text) = 0
    /\ pc' = "skipped"
    /\ UNCHANGED <<alg, ps, nocase, text, garbage, tbl, ac, sh, bm, stats,
                   env, global_mem_stats, prev, thr>>

AcSearch ==
    /\ NoScanYet /\ env.capture /\ alg = "a"
    /\ stats' = ac_search(ac, ps, text)
    /\ pc' = "scanned"
    /\ UNCHANGED <<alg, ps, nocase, text, garbage, tbl, ac, sh, bm,
                   env, global_mem_stats, prev, thr>>

WmSearch ==
    /\ NoScanYet /\ env.capture /\ alg \in {"d", "p"}
    /\ stats' = wm_search(text, ps, tbl)
    /\ pc' = "scanned"
    /\ UNCHANGED <<alg, ps, nocase, text, garbage, tbl, ac, sh, bm,
                   env, global_mem_stats, prev, thr>>

\* performSetHorspool: the shift table comes from track_malloc and goes
\* back with track_free
PerformSetHorspool ==
    /\ NoScanYet /\ env.capture /\ alg = "h"
    /\ stats' = performSetHorspool(text, sh)
    /\ global_mem_stats' = track_free(track_alloc(global_mem_stats, 1), 1)
    /\ pc' = "scanned"
    /\ UNCHANGED <<alg, ps, nocase, text, garbage, tbl, ac, sh, bm,
                   env, prev, thr>>

BmSearch ==
    /\ NoScanYet /\ env.capture /\ alg = "b"
    /\ stats' = bm_search(bm, text)
    /\ pc' = "scanned"
    /\ UNCHANGED <<alg, ps, nocase, text, garbage, tbl, ac, sh, bm,
                   env, global_mem_stats, prev, thr>>

\* the engine call of scan_file's switch
EngineScan ==
    CASE alg = "a" -> ac_search(ac, ps, text)
      [] alg \in {"d", "p"} -> wm_search(text, ps, tbl)
      [] alg = "h" -> performSetHorspool(text, sh)
      [] alg = "b" -> bm_search(bm, text)

\* the track_malloc and track_free of one performSetHorspool call
ScanMem(m) == IF alg = "h" THEN track_free(track_alloc(m, 1), 1) ELSE m

\* a second scan whose record goes on from the one the first scan left
ScanFileCarrying ==
    /\ pc = "scanned" /\ thr = Idle /\ env.capture
    /\ prev' = stats
    /\ stats' = [EngineScan EXCEPT !.matches = stats.matches \o @]
    /\ global_mem_stats' = ScanMem(global_mem_stats)
    /\ pc' = "rescanned"
    /\ UNCHANGED <<alg, ps, nocase, text, garbage, tbl, ac, sh, bm, env, thr>>
\* scan_file called once more on the same file, with the same tables
ScanFileAgain ==
    /\ pc = "scanned" /\ thr = Idle /\ env.capture
    /\ prev' = stats
    /\ stats' = EngineScan
    /\ global_mem_stats' = ScanMem(global_mem_stats)
    /\ pc' = "rescanned"
    /\ UNCHANGED <<alg, ps, nocase, text, garbage, tbl, ac, sh, bm, env, thr>>

(* Scans side by side.  ac_search, wm_search and bm_search read the tables
   and the text and write their own AlgorithmStats only, so each is one
   step.  performSetHorspool also counts in global_mem_stats:
   alloc_count++ and free_count++ are a load and a store each, and another
   thread may run between the two. *)
ThreadOnBuilt(t) == pc = "built" /\ env.capture /\ t \in Threads

ThreadScan(t) ==
    /\ ThreadOnBuilt(t) /\ alg # "h" /\ thr[t].pc = "idle"
    /\ thr' = [thr EXCEPT ![t].pc = "done", ![t].stats = EngineScan]
    /\ UNCHANGED <<alg, ps, nocase, text, garbage, pc, tbl, ac, sh, bm, stats,
                   env, global_mem_stats, prev>>

\* track_malloc: the load of global_mem_stats->alloc_count++
ShAllocLoad(t) ==
    /\ ThreadOnBuilt(t) /\ alg = "h" /\ thr[t].pc = "idle"
    /\ thr' = [thr EXCEPT ![t].pc = "alloc",
                          ![t].reg = global_mem_stats.alloc_count]
    /\ UNCHANGED <<alg, ps, nocase, text, garbage, pc, tbl, ac, sh, bm, stats,
                   env, global_mem_stats, prev>>

\* track_malloc: the store of global_mem_stats->alloc_count++
ShAllocStore(t) ==
    /\ ThreadOnBuilt(t) /\ thr[t].pc = "alloc"
    /\ global_mem_stats' =
          [global_mem_stats EXCEPT !.alloc_count = thr[t].reg + 1]
    /\ thr' = [thr EXCEPT ![t].pc = "search"]
    /\ UNCHANGED <<alg, ps, nocase, text, garbage, pc, tbl, ac, sh, bm, stats,
                   env, prev>>

\* buildSetHorspoolShiftTable and setHorspoolSearch on the thread's own
\* shift table and AlgorithmStats
ShSearch(t) ==
    /\ ThreadOnBuilt(t) /\ thr[t].pc = "search"
    /\ thr' = [thr EXCEPT ![t].pc = "free",
                          ![t].stats = performSetHorspool(text, sh)]
    /\ UNCHANGED <<alg, ps, nocase, text, garbage, pc, tbl, ac, sh, bm, stats,
                   env, global_mem_stats, prev>>

\* track_free: the load of global_mem_stats->free_count++
ShFreeLoad(t) ==
    /\ ThreadOnBuilt(t) /\ thr[t].pc = "free"
    /\ thr' = [thr EXCEPT ![t].pc = "freeing",
                          ![t].reg = global_mem_stats.free_count]
    /\ UNCHANGED <<alg, ps, nocase, text, garbage, pc, tbl, ac, sh, bm, stats,
                   env, global_mem_stats, prev>>

\* track_free: the store of global_mem_stats->free_count++
ShFreeStore(t) ==
    /\ ThreadOnBuilt(t) /\ thr[t].pc = "freeing"
    /\ global_mem_stats' =
          [global_mem_stats EXCEPT !.free_count = thr[t].reg + 1]
    /\ thr' = [thr EXCEPT ![t].pc = "done"]
    /\ UNCHANGED <<alg, ps, nocase, text, garbage, pc, tbl, ac, sh, bm, stats,
                   env, prev>>

(* The driver from its first line. *)

\* main: argc != 3, usage and EXIT_FAILURE
MainUsage ==
    /\ pc = "start" /\ env.argc # 3
    /\ pc' = "exit1"
    /\ UNCHANGED <<alg, ps, nocase, text, garbage, tbl, ac, sh, bm, stats,
                   env, global_mem_stats, prev, thr>>

\* main: the default case of the switch on argv[1][0]
MainBadKey ==
    /\ pc = "start" /\ env.argc = 3 /\ alg \notin Algs
    /\ pc' = "exit1"
    /\ UNCHANGED <<alg, ps, nocase, text, garbage, tbl, ac, sh, bm, stats,
                   env, global_mem_stats, prev, thr>>

\* main: loadSnortRulesFromFile returned NULL (fopen failed)
MainNoRules ==
    /\ pc = "start" /\ env.argc = 3 /\ alg \in Algs /\ ~env.ruleset
    /\ pc' = "exit1"
    /\ UNCHANGED <<alg, ps, nocase, text, garbage, tbl, ac, sh, bm, stats,
                   env, global_mem_stats, prev, thr>>

\* main: the ruleset is loaded and global_mem_stats allocated
MainLoad ==
    /\ pc = "start" /\ env.argc = 3 /\ alg \in Algs /\ env.ruleset
    /\ global_mem_stats' = MemStats0
    /\ pc' = "loaded"
    /\ UNCHANGED <<alg, ps, nocase, text, garbage, tbl, ac, sh, bm, stats,
                   env, prev, thr>>

\* main after scan_file returned: the tables, the set and global_mem_stats
\* are freed; return 0
MainReturn ==
    /\ pc \in {"scanned", "skipped", "unread"} /\ thr = Idle
    /\ tbl' = NotBuilt /\ ac' = NotBuilt /\ sh' = NotBuilt /\ bm' = NotBuilt
    /\ global_mem_stats' = NotBuilt
    /\ pc' = "exit0"
    /\ UNCHANGED <<alg, ps, nocase, text, garbage, stats, env, prev, thr>>

\* the program from its first line: any argument count, any key, ruleset
\* and file that open or not
InitMain ==
    /\ alg \in Algs \cup {"x"}
    /\ \E rows \in PatternArrays(Lower, 1, TinyPatLen) :
          /\ ps = PatternSetOf(rows)
          /\ nocase = [i \in 1 .. Len(rows) |-> FALSE]
    /\ text \in Strings(Lower, 0, TinyTextLen)
    /\ garbage \in (IF alg = "b" THEN {-1, 0, 1} ELSE {0})
    /\ pc = "start"
    /\ tbl = NotBuilt /\ ac = NotBuilt /\ sh = NotBuilt /\ bm = NotBuilt
    /\ stats = NoStats
    /\ env \in [argc : {2, 3, 4}, ruleset : BOOLEAN, capture : BOOLEAN]
    /\ global_mem_stats = NotBuilt
    /\ prev = NoStats
    /\ thr = Idle

\* every engine, built once, then scanned by two threads
InitThreads ==
    InitOver(Algs, Lower, 1, TinyPatLen, {FALSE}, Lower, TinyTextLen)

Next ==
    \/ MainBuildAC \/ MainBuildWM \/ CreateTable \/ MainBuildSH \/ MainBuildBM
    \/ ScanFileEmpty
    \/ AcSearch \/ WmSearch \/ PerformSetHorspool \/ BmSearch

NextAC == MainBuildAC \/ ScanFileEmpty \/ AcSearch

NextWM == MainBuildWM \/ CreateTable \/ ScanFileEmpty \/ WmSearch

NextAgain == Next \/ ScanFileAgain

NextThreads ==
    \/ MainBuildAC \/ MainBuildWM \/ MainBuildSH \/ MainBuildBM
    \/ \E t \in Threads :
          \/ ThreadScan(t)
          \/ ShAllocLoad(t) \/ ShAllocStore(t)
          \/ ShSearch(t)
          \/ ShFreeLoad(t) \/ ShFreeStore(t)

NextMain ==
    \/ MainUsage \/ MainBadKey \/ MainNoRules \/ MainLoad
    \/ MainBuildAC \/ MainBuildWM \/ MainBuildSH \/ MainBuildBM
    \/ ScanFileUnreadable \/ ScanFileEmpty
    \/ AcSearch \/ WmSearch \/ PerformSetHorspool \/ BmSearch
    \/ MainReturn

Spec == Init /\ [][Next]_vars
SpecWM == InitWM /\ [][NextWM]_vars
SpecAC == InitAC /\ [][NextAC]_vars
SpecAvg == InitAvg /\ [][NextWM]_vars
SpecCase == InitCase /\ [][Next]_vars
SpecBin == InitBin /\ [][Next]_vars
SpecAgain == Init /\ [][NextAgain]_vars
SpecThreads == InitThreads /\ [][NextThreads]_vars
SpecMain == InitMain /\ [][NextMain]_vars

(* ------------------------------ Properties ----------------------------- *)

Range(s) == {s[i] : i \in DOMAIN s}
CountIn(s, x) == Cardinality({i \in DOMAIN s : s[i] = x})
SameBag(a, b) == \A x \in Range(a) \cup Range(b) : CountIn(a, x) = CountIn(b, x)

Pids == 0 .. ps.pattern_count - 1
Scanned == pc = "scanned"
IsWM == alg \in {"d", "p"}
Reported == Range(stats.matches)

\* the signature pid as the C string its row holds
Pat(pid) == CStr(ps.patterns[pid + 1])

\* the bytes of P stand in T at offset s
OccursAt(P, T, s) ==
    /\ s >= 0 /\ s + Len(P) <= Len(T)
    /\ \A k \in 1 .. Len(P) : T[s + k] = P[k]

\* the same, under ASCII folding when nc
OccursFolded(nc, P, T, s) ==
    /\ s >= 0 /\ s + Len(P) <= Len(T)
    /\ \A k \in 1 .. Len(P) :
          IF nc THEN tolower(T[s + k]) = tolower(P[k]) ELSE T[s + k] = P[k]

\* every (pid, start) at which a nonempty signature occurs in the file
Occurrences ==
    {x \in Pids \X (0 .. Len(text)) :
        Len(Pat(x[1])) > 0 /\ OccursAt(Pat(x[1]), text, x[2])}

\* what each engine of the driver counts on the loaded set and the file
EngineMatches(a) ==
    CASE a = "a" -> ac_search(ac_build(AcAddAll(ac_create, ps, 0)), ps, text).matches
      [] a = "d" -> wm_search(text, ps, wm_build_tables(ps, FALSE)).matches
      [] a = "p" -> wm_search(text, ps, wm_build_tables(ps, TRUE)).matches
      [] a = "h" -> performSetHorspool(text, sh_patterns_of(ps, nocase)).matches
      [] a = "b" -> bm_search(bm_preprocessing(ps, garbage), text).matches

\* C1: on the same pattern set and text the five engines report the same
\* multiset of (pid, start) matches: the multiset this scan reported is the
\* one every other engine reports.
C1_EnginesAgree ==
    Scanned => \A a \in Algs : SameBag(stats.matches, EngineMatches(a))

\* C2: every match the Wu-Manber scan reports is a full occurrence: the
\* pat_len[pid] bytes of the text from the reported start lie inside the
\* text and equal the pattern, also when the pattern is longer than m.
C2_WmMatchIsOccurrence ==
    (Scanned /\ IsWM) =>
        \A x \in Reported :
            /\ x[2] + tbl.pat_len[x[1] + 1] <= Len(text)
            /\ \A k \in 0 .. tbl.pat_len[x[1] + 1] - 1 :
                  At(text, x[2] + k) = At(ps.patterns[x[1] + 1], k)

\* the deterministic scan over a set whose patterns all have B bytes or more
WmDetLong ==
    /\ Scanned /\ alg = "d"
    /\ \A pid \in Pids : strlen(ps.patterns[pid + 1]) >= tbl.B

\* C3: with every pattern at least B bytes long, the deterministic Wu-Manber
\* scan over the tables of wm_build_tables reports every occurrence of every
\* pattern: no shift carries the window past one.
C3_WmDetComplete ==
    WmDetLong => Occurrences \subseteq Reported

\* a scan that passed over a window by a shift of two or more and reported
\* an occurrence at the window it came to
C3_Witness ==
    /\ WmDetLong
    /\ \E k \in 1 .. Len(stats.visited) - 1 :
          /\ stats.visited[k + 1] >= stats.visited[k] + 2
          /\ \E x \in Reported :
                x[2] = stats.visited[k + 1] - wm_search_m(ps, tbl) + 1
    /\ Occurrences # {}
    /\ Occurrences \subseteq Reported

\* the window ends of the scan whose block has shift 0
WmZeroWindows ==
    {i \in Range(stats.visited) :
        ShiftAt(tbl, block_key(text, i - tbl.B + 1, tbl.B, tbl.B)) = 0}

\* C4: the scan with the Bloom filter reports exactly what the scan without
\* it reports, and whenever a window with shift 0 holds an occurrence of a
\* pattern, bloom_check on the bytes the scan probes is true.
C4_BloomNoFalseNegative ==
    (Scanned /\ alg = "p") =>
        /\ SameBag(stats.matches,
                   wm_search(text, ps, wm_build_tables(ps, FALSE)).matches)
        /\ \A i \in WmZeroWindows : \A pid \in Pids :
              LET start == i - wm_search_m(ps, tbl) + 1
              IN  (Len(Pat(pid)) > 0 /\ OccursAt(Pat(pid), text, start)) =>
                      bloom_check(tbl.prefix_filter, text, start,
                                  wm_bloom_probe_len(wm_search_m(ps, tbl), tbl.B))

\* C5: every match (pid, start) reported by any engine lies inside the text:
\* start + |P[pid]| <= n.
C5_MatchInsideText ==
    Scanned => \A x \in Reported :
        x[2] >= 0 /\ x[2] + strlen(ps.patterns[x[1] + 1]) <= Len(text)

\* C6: every engine reports overlapping occurrences: after a match at start
\* s an occurrence of the same pattern at s + 1 is reported too, so that
\* "aa" in "aaaa" is reported at 0, 1 and 2.
C6_OverlapsReported ==
    Scanned =>
        /\ \A x \in Reported :
              (Len(Pat(x[1])) > 0 /\ OccursAt(Pat(x[1]), text, x[2] + 1)) =>
                  <<x[1], x[2] + 1>> \in Reported
        /\ (ps.patterns = <<(<<97, 97>>)>> /\ text = <<97, 97, 97, 97>>) =>
              Reported = {<<0, 0>>, <<0, 1>>, <<0, 2>>}

\* C7: each engine honours the nocase flag of each pattern: a pattern with
\* the flag is reported wherever it stands under ASCII folding, one without
\* it only where the bytes are equal.
C7_NocaseHonoured ==
    Scanned =>
        \A pid \in Pids : \A s \in 0 .. Len(text) :
            <<pid, s>> \in Reported <=>
                (Len(Pat(pid)) > 0
                 /\ OccursFolded(nocase[pid + 1], Pat(pid), text, s))

\* C8: a signature that holds the byte 0x00 keeps its full length and every
\* engine reports it at each place its bytes, the zero bytes included, stand
\* in the text.
C8_BinarySignatureReported ==
    Scanned =>
        \A pid \in Pids : \A s \in 0 .. Len(text) :
            LET sig == ps.patterns[pid + 1]
            IN  ((\E k \in 1 .. Len(sig) : sig[k] = 0) /\ OccursAt(sig, text, s))
                    => <<pid, s>> \in Reported

\* C9: over nonempty patterns the Aho-Corasick scan reports, once each,
\* exactly the occurrences: at every index the patterns that end there and
\* no other.
C9_AcExact ==
    (Scanned /\ alg = "a" /\ \A pid \in Pids : Len(Pat(pid)) > 0) =>
        /\ \A pid \in Pids : \A s \in 0 .. Len(text) :
              <<pid, s>> \in Reported <=>
                  OccursFolded(nocase[pid + 1], Pat(pid), text, s)
        /\ \A x \in Reported : CountIn(stats.matches, x) = 1

\* C10: the Set-Horspool scan reports every occurrence of every nonempty
\* pattern: a window is passed over only when no pattern occurs at its start.
C10_ShComplete ==
    (Scanned /\ alg = "h") => Occurrences \subseteq Reported

\* C11: for each pattern the Boyer-Moore scan reports every start at which
\* the pattern occurs, not only the first, and no other offset.
C11_BmExact ==
    (Scanned /\ alg = "b") =>
        /\ Reported = Occurrences
        /\ \A x \in Reported : CountIn(stats.matches, x) = 1

\* C12: a pattern shorter than the block size B (1 <= |P| < B) is reported
\* by the Wu-Manber scan at every offset where it occurs, whatever bytes
\* follow it.
C12_WmShortPattern ==
    (Scanned /\ IsWM) =>
        \A pid \in Pids : \A s \in 0 .. Len(text) :
            (/\ strlen(ps.patterns[pid + 1]) >= 1
             /\ strlen(ps.patterns[pid + 1]) < tbl.B
             /\ OccursAt(Pat(pid), text, s)) => <<pid, s>> \in Reported

\* the Stats record of the running engine with every counter 0 and nothing
\* reported or visited
ZeroStats ==
    CASE alg = "a" -> AcStats0
      [] IsWM -> WmStats0
      [] alg = "h" -> ShStats0
      [] alg = "b" -> BmStats0

C16_ZeroLengthRejected ==
    (pc \in {"built", "scanned", "skipped"}) =>
        \A pid \in Pids : strlen(ps.patterns[pid + 1]) > 0

\* the lengths of the patterns the set holds
RECURSIVE SumLen(_)
SumLen(pid) ==
    IF pid < 0 THEN 0 ELSE strlen(ps.patterns[pid + 1]) + SumLen(pid - 1)
ShortestLen ==
    CHOOSE L \in {strlen(ps.patterns[pid + 1]) : pid \in Pids} :
        \A pid \in Pids : L <= strlen(ps.patterns[pid + 1])

\* C17: the Wu-Manber tables are built with block size 2 when the shortest
\* pattern of the set has fewer than 4 bytes or the set has more than 5000
\* patterns, else 4 when the average pattern length exceeds 30, else 3.
C17_BlockSizeOfActualPatterns ==
    (pc \in {"built", "scanned", "skipped"} /\ IsWM) =>
        tbl.B = IF ShortestLen < 4 \/ ps.pattern_count > 5000 THEN 2
                ELSE IF SumLen(ps.pattern_count - 1) > 30 * ps.pattern_count
                     THEN 4 ELSE 3

\* the automaton main has built
AcBuilt == alg = "a" /\ pc \in {"built", "scanned", "skipped"}
AcNodes == 0 .. ac.node_count - 1

\* the string a node spells: the bytes on the path from the root to it
AcParent(k) ==
    CHOOSE e \in UNION {{<<p, c>> : c \in DOMAIN ac.nodes[p + 1].transitions} :
                          p \in AcNodes} :
        ac.nodes[e[1] + 1].transitions[e[2]] = k
RECURSIVE AcString(_)
AcString(k) ==
    IF k = 0 THEN <<>>
    ELSE Append(AcString(AcParent(k)[1]), AcParent(k)[2])

IsSuffix(u, w) ==
    Len(u) <= Len(w) /\ SubSeq(w, Len(w) - Len(u) + 1, Len(w)) = u
IsProperSuffix(u, w) == Len(u) < Len(w) /\ IsSuffix(u, w)

\* C19: after ac_build the failure link of every non-root node points to the
\* node that spells the longest proper suffix of the node's string that is
\* a path from the root; that node is strictly shallower, so the links form
\* a tree rooted at node 0.
C19_AcFailLongestSuffix ==
    AcBuilt =>
        LET str == [k \in AcNodes |-> AcString(k)]
        IN  \A k \in AcNodes \ {0} :
                LET f == ac.nodes[k + 1].fail_state
                IN  /\ f \in AcNodes
                    /\ IsProperSuffix(str[f], str[k])
                    /\ \A j \in AcNodes :
                          IsProperSuffix(str[j], str[k]) =>
                              Len(str[j]) <= Len(str[f])

\* a built automaton with a failure link to a node of depth 2
C19_Witness ==
    /\ AcBuilt
    /\ \E k \in AcNodes \ {0} :
          /\ Len(AcString(ac.nodes[k + 1].fail_state)) >= 2
          /\ IsProperSuffix(AcString(ac.nodes[k + 1].fail_state), AcString(k))

\* the pattern as the automaton stores it
AcFolded(pid) == [i \in 1 .. Len(Pat(pid)) |-> ac_fold(Pat(pid)[i])]

\* C20: after ac_build the output set of every node holds the patterns that
\* end at the node and every pattern of its failure node's output set, and
\* so exactly the patterns that are suffixes of the node's string, in
\* whatever order the patterns were inserted.
C20_AcOutputClosed ==
    AcBuilt =>
        \A k \in AcNodes :
            /\ Range(ac.nodes[k + 1].output) =
                  {pid \in Pids : Len(Pat(pid)) > 0
                                  /\ IsSuffix(AcFolded(pid), AcString(k))}
            /\ k # 0 =>
                  Range(ac.nodes[ac.nodes[k + 1].fail_state + 1].output)
                      \subseteq Range(ac.nodes[k + 1].output)

\* a node whose output holds its own pattern, the pattern of its failure
\* node and the one that node inherited in turn
C20_Witness ==
    /\ AcBuilt
    /\ \E k \in AcNodes \ {0} :
          LET f == ac.nodes[k + 1].fail_state
              g == ac.nodes[f + 1].fail_state
          IN  /\ g # 0
              /\ \E p1, p2, p3 \in Range(ac.nodes[k + 1].output) :
                    /\ AcFolded(p1) = AcString(k)
                    /\ AcFolded(p2) = AcString(f)
                    /\ AcFolded(p3) = AcString(g)

MemAsBuilt ==
    CASE alg = "a" ->
           track_free(track_alloc(MemStats0, ac_alloc_count(ac, ps)), 1)
      [] alg = "d" -> track_alloc(MemStats0, 1)
      [] alg = "p" -> track_alloc(MemStats0, 2)
      [] alg = "h" -> track_alloc(MemStats0, 1)
      [] alg = "b" -> track_alloc(MemStats0, 2 + 2 * ps.pattern_count)

\* C15: scans that run side by side on the same tables, each with its own
\* Stats record, write nothing they share, and each ends with the matches
\* and counters of a scan run alone.
C15_ConcurrentScansIsolated ==
    (pc = "built") =>
        /\ global_mem_stats = MemAsBuilt
        /\ \A t \in Threads :
              thr[t].pc = "done" => thr[t].stats = EngineScan

\* C18: the driver exits with 1 when the argument count or the key is
\* invalid or the ruleset or the file cannot be read, and exits with 0 only
\* after a scan of the file has completed.
C18_ExitCodes ==
    (pc = "exit0") =>
        /\ env.argc = 3 /\ alg \in Algs
        /\ env.ruleset /\ env.capture
        /\ stats # NoStats

\* the state ac_search is in before it reads the byte at index i
AcStateBefore(i) == IF i = 0 THEN 0 ELSE stats.states[i]

\* C21: after ac_build every root transition is defined, a missing one
\* leading back to the root; in every step of a scan the failure loop stops
\* at a node that has a transition on the current byte, so the state is
\* always a node index in 0 .. node_count - 1 and never the sentinel -1.
C21_AcStateValid ==
    /\ AcBuilt =>
          /\ ac.nodes[1].unset = 0
          /\ \A c \in DOMAIN ac.nodes[1].transitions :
                ac.nodes[1].transitions[c] \in AcNodes
    /\ (Scanned /\ alg = "a") =>
          \A i \in 0 .. Len(text) - 1 :
              LET c == ac_fold(At(text, i))
                  f == AcFollow(ac, AcStateBefore(i), c, 0)
                  t == TransAt(ac.nodes[f.state + 1], c)
              IN  /\ f.state \in AcNodes
                  /\ t \in AcNodes
                  /\ stats.states[i + 1] = t

\* a scan that followed a failure link and one that used a root gap
C21_Witness ==
    /\ Scanned /\ alg = "a"
    /\ stats.fail_steps > 0
    /\ \E i \in 0 .. Len(text) - 1 :
          /\ AcStateBefore(i) = 0
          /\ ac_fold(At(text, i)) \notin DOMAIN ac.nodes[1].transitions
          /\ stats.states[i + 1] = 0

\* Wu-Manber tables have been built
WmBuilt == IsWM /\ pc \in {"built", "scanned", "skipped"}
\* the window length the build used on the set it was given
WmBuildM == IF ps.min_length < tbl.B THEN tbl.B ELSE ps.min_length

\* the key of the B bytes of the C string in row P from offset j, bytes past
\* its end counting as zero, first byte least significant
RECURSIVE PaddedKey(_, _, _)
PaddedKey(P, j, B) ==
    IF B = 0 THEN 0
    ELSE (IF j < strlen(P) THEN P[j + 1] ELSE 0) + 256 * PaddedKey(P, j + 1, B - 1)

\* the (pattern, offset) pairs the build looks at and their keys
WmBlocks == Pids \X (0 .. WmBuildM - tbl.B)
WmBlockKey(x) == PaddedKey(ps.patterns[x[1] + 1], x[2], tbl.B)
WmSuffixKey(pid) == PaddedKey(ps.patterns[pid + 1], WmBuildM - tbl.B, tbl.B)
\* every key that is not the default in either table
WmKeys ==
    DOMAIN tbl.shift_table \cup DOMAIN tbl.hash_table
        \cup {WmBlockKey(x) : x \in WmBlocks}

MinOf(S) == CHOOSE x \in S : \A y \in S : x <= y

\* the pattern ids met from hash[k] along next[], at most n of them
RECURSIVE WmChainFrom(_, _)
WmChainFrom(pid, n) ==
    IF pid = -1 \/ n = 0 THEN <<>>
    ELSE <<pid>> \o WmChainFrom(tbl.next[pid + 1], n - 1)
WmChainOf(k) == WmChainFrom(HashAt(tbl, k), ps.pattern_count + 1)

\* C22: after wm_build_tables, shift[k] of every key k is the minimum of
\* the default m - B + 1 and of m - j - B over the patterns and offsets
\* j in 0 .. m - B whose zero-padded block has key k; the block at offset
\* m - B of every pattern has shift 0 and the pattern is on that key's chain.
C22_WmShiftMinimum ==
    WmBuilt =>
        /\ \A k \in WmKeys :
              ShiftAt(tbl, k) =
                  MinOf({WmBuildM - tbl.B + 1} \cup
                        {WmBuildM - x[2] - tbl.B :
                            x \in {y \in WmBlocks : WmBlockKey(y) = k}})
        /\ \A pid \in Pids :
              /\ ShiftAt(tbl, WmSuffixKey(pid)) = 0
              /\ pid \in Range(WmChainOf(WmSuffixKey(pid)))

\* one key that two patterns hold at different offsets and that has the
\* smaller of their shifts, and one key with a shift between 0 and the default
C22_Witness ==
    /\ WmBuilt
    /\ \E x, y \in WmBlocks :
          /\ x[1] # y[1] /\ x[2] < y[2]
          /\ WmBlockKey(x) = WmBlockKey(y)
          /\ ShiftAt(tbl, WmBlockKey(x)) = WmBuildM - y[2] - tbl.B
    /\ \E z \in WmBlocks :
          /\ ShiftAt(tbl, WmBlockKey(z)) > 0
          /\ ShiftAt(tbl, WmBlockKey(z)) < WmBuildM - tbl.B + 1

\* C23: after wm_build_tables, the walk from hash[k] along next[] ends at
\* -1 without meeting an id twice and meets exactly the patterns whose block
\* at offset m - B has key k; every pattern is on one chain only, and a
\* pattern inserted later comes before one inserted earlier.
C23_WmChains ==
    WmBuilt =>
        \A k \in WmKeys :
            LET chain == WmChainOf(k)
            IN  /\ Len(chain) <= ps.pattern_count
                /\ \A i, j \in DOMAIN chain : i < j => chain[i] > chain[j]
                /\ Range(chain) = {pid \in Pids : WmSuffixKey(pid) = k}

\* a chain of two patterns
C23_Witness ==
    /\ WmBuilt
    /\ \E pid \in Pids :
          /\ Len(WmChainOf(WmSuffixKey(pid))) = 2
          /\ WmChainOf(WmSuffixKey(pid))[2] = pid
          /\ ps.patterns[1] # ps.patterns[2]

\* the window length the build left in the tables: default_shift = m - B + 1
WmTableM == tbl.default_shift + tbl.B - 1

\* C24: on the path on which the driver builds and scans (main calls
\* wm_build_tables on the set as loaded), the window length of the build and
\* the window length of wm_search are the same value, and that value is the
\* larger of B and the length of the shortest pattern of the set.
C24_WmWindowLength ==
    (Scanned /\ IsWM /\ ps.min_length = 0) =>
        /\ wm_search_m(ps, tbl) = WmTableM
        /\ WmTableM = Max(tbl.B, ShortestLen)

\* the keys wm_search computes: one for each window end it examined
WmScanKeys ==
    {block_key(text, stats.visited[n] - tbl.B + 1, tbl.B, tbl.B) :
        n \in 1 .. Len(stats.visited)}

ShBuilt == alg = "h" /\ pc \in {"built", "scanned", "skipped"}
ShM == MinOf({sh[p].length : p \in DOMAIN sh})

\* the other-case ASCII letter of a byte (the byte itself when not a letter)
OtherCase(c) ==
    IF c \in 65 .. 90 THEN c + 32 ELSE IF c \in 97 .. 122 THEN c - 32 ELSE c

\* the shifts m - 1 - i the patterns give byte c
ShShiftsOf(c) ==
    {ShM - 1 - i : i \in
        {i \in 0 .. ShM - 2 :
            \E p \in DOMAIN sh :
                \/ At(sh[p].pattern, i) = c
                \/ sh[p].nocase /\ c # At(sh[p].pattern, i)
                                /\ c = OtherCase(At(sh[p].pattern, i))}}

\* shift[c] is the minimum of m and of the shifts the patterns give c
ShShiftIsMinimum ==
    ShBuilt =>
        \A c \in 0 .. 255 :
            ShShiftAt(buildSetHorspoolShiftTable(sh), c)
                = MinOf({ShM} \cup ShShiftsOf(c))

\* C26: after buildSetHorspoolShiftTable, with m the shortest pattern
\* length, shift[c] is for every byte c the minimum of m and of m - 1 - i over
\* the patterns and indices i < m - 1 that hold c (or, for a nocase pattern,
\* its other-case letter), and so 1 <= shift[c] <= m.
C26_ShShiftTable ==
    /\ ShShiftIsMinimum
    /\ ShBuilt =>
          \A c \in 0 .. 255 :
              /\ 1 <= ShShiftAt(buildSetHorspoolShiftTable(sh), c)
              /\ ShShiftAt(buildSetHorspoolShiftTable(sh), c) <= ShM

\* the window starts at which the Set-Horspool scan went on to verify
\* candidates: the end byte's shift is at most 1
ShVerified ==
    {n \in 1 .. Len(stats.visited) :
        ShShiftAt(buildSetHorspoolShiftTable(sh),
                  At(text, stats.visited[n] + sh_min_length(sh) - 1)) <= 1}

\* the candidate list the scan consults for end byte e
ShCandidateList(e) == ShListAt(sh_hash_table(sh, sh_min_length(sh)), e)

\* pattern p (1-based) has byte e, or its other-case letter when it is
\* nocase, at index m - 1
ShEndsIn(p, e) ==
    \/ At(sh[p].pattern, ShM - 1) = e
    \/ sh[p].nocase /\ e # At(sh[p].pattern, ShM - 1)
                    /\ e = OtherCase(At(sh[p].pattern, ShM - 1))

BmBuilt == alg = "b" /\ pc \in {"built", "scanned", "skipped"}

\* With the suffix P[k..L) matched and a mismatch at k - 1, an occurrence of P
\* can start s places further on only if P shifted by s agrees with the
\* matched suffix and has another byte than P[k-1] under the mismatch
BmShiftFits(P, L, k, s) ==
    /\ \A i \in k .. L - 1 : i - s < 0 \/ At(P, i - s) = At(P, i)
    /\ k - 1 - s < 0 \/ k = 0 \/ At(P, k - 1 - s) # At(P, k - 1)

\* the shift of the strong good-suffix rule: the least that fits
BmStrongShift(P, L, k) == MinOf({s \in 1 .. Max(L, 1) : BmShiftFits(P, L, k, s)})

\* C28: for every pattern P of length L and every k in 0 .. L, good[k] as
\* bm_preprocessing leaves it is the shift of the strong good-suffix rule: it
\* is at least 1, and no smaller shift fits, so that shifting by good[k] after
\* the suffix P[k..L) has matched passes over no alignment at which P occurs.
C28_BmGoodSuffix ==
    BmBuilt =>
        \A i \in 1 .. bm.num_patterns :
            LET t == bm.patterns[i]
                L == t.pattern_length
            IN  \A k \in 0 .. L :
                    /\ GetI(t.goodSuffixTable, k) >= 1
                    /\ GetI(t.goodSuffixTable, k) = BmStrongShift(t.pattern, L, k)
                    /\ \A s \in 1 .. GetI(t.goodSuffixTable, k) - 1 :
                           ~BmShiftFits(t.pattern, L, k, s)

\* the positions of the outer loop of a scan, in the order it took them: the
\* window ends of wm_search, the window starts of setHorspoolSearch, and for
\* bm_search the alignments of pattern i
ScanPositions(i) ==
    IF alg = "b"
    THEN SelectSeq(stats.visited, LAMBDA v : v[1] = i)
    ELSE stats.visited

StrictlyIncreasing(seq) ==
    \A n \in 1 .. Len(seq) - 1 :
        IF alg = "b" THEN seq[n][2] < seq[n + 1][2] ELSE seq[n] < seq[n + 1]

\* C29: every scan ends.  Each iteration of the outer loop of the Wu-Manber,
\* Set-Horspool and Boyer-Moore scans moves the position forward by at least
\* 1, so that a scan makes at most one iteration per byte of the input (per
\* pattern for Boyer-Moore); for each input byte the failure loop of
\* Aho-Corasick stops, after at most as many links as bytes were read, at a
\* state from which the byte is taken.
C29_ScansEnd ==
    /\ (Scanned /\ alg \in {"d", "p", "h", "b"}) =>
          \A i \in (IF alg = "b" THEN Pids ELSE {0}) :
              /\ StrictlyIncreasing(ScanPositions(i))
              /\ Len(ScanPositions(i)) <= Len(text)
    /\ (Scanned /\ alg = "a") =>
          /\ Len(stats.states) = Len(text)
          /\ \A i \in 0 .. Len(text) - 1 :
                LET c == ac_fold(At(text, i))
                    f == AcFollow(ac, AcStateBefore(i), c, 0)
                IN  /\ f.steps <= i
                    /\ f.state = 0 \/ TransAt(ac.nodes[f.state + 1], c) # -1

\* a Wu-Manber scan of three windows, one of them a hit of its hash table
C29_Witness ==
    /\ Scanned /\ IsWM
    /\ Len(stats.visited) >= 3
    /\ stats.hash_hits > 0

\* a step in which scan_file runs the engine on the file
ScanStep == pc = "built" /\ pc' = "scanned"

\* C30: a scan by any engine leaves the tables of the engine, the signature
\* set and the input buffer as they were, and writes no state but its own
\* Stats record (pc is the position of the driver, not data of the program).
C30_ScanFrame ==
    [][ScanStep =>
          /\ UNCHANGED <<tbl, ac, sh, bm>>
          /\ UNCHANGED <<ps, nocase>>
          /\ UNCHANGED text
          /\ UNCHANGED <<alg, garbage, env, global_mem_stats, prev, thr>>]_vars

====
